---- MODULE Spec2Model ----
(***************************************************************************)
(* sln-runner: an interactive terminal picker.  The model covers the       *)
(* session object App (src/app/app.rs), its startup, its interactive loop  *)
(* and the build-then-run orchestration, together with the older           *)
(* single-list draft of the same program kept in src/main.rs.              *)
(***************************************************************************)
EXTENDS Integers, Sequences, FiniteSets, TLC

\* ------------------------------------------------------------------ bounds
MaxSlns == 2        \* solution files that exist under the scan root
MaxProjects == 2    \* project references in one solution file
MaxEnters == 3      \* Enter presses the app.rs session handles successfully
MaxLogOver == 5     \* add_log calls past the ceiling
MaxLines == 2       \* lines of a solution text
MaxCalls == 3       \* launch profile detections in a row

\* ------------------------------------------------------- program constants
LogCeiling == 100   \* app.rs:116  if self.logs.len() > 100

VARIABLES
    draft,            \* which App is running: "app" (app/app.rs) or "main" (main.rs)
    discovered,       \* environment: what the directory walk yields, in walk order
    pc,               \* "start", "created", "loop", "building", "exited"
    result,           \* how the program ended: "none" while it runs
    exit,             \* App.exit
    sln_files,        \* App.sln_files
    selected_sln,     \* App.selected_sln
    projects,         \* App.projects
    list_state,       \* App.list_state.selected : Option<usize>
    showing_projects, \* App.showing_projects
    logs,             \* App.logs
    appended,         \* every message handed to add_log so far, in order
    raw_mode,         \* terminal raw mode is enabled
    alt_screen,       \* terminal shows the alternate screen
    event,            \* the outcome of the last poll/read of the loop
    procs,            \* the external steps of the latest project confirm, in order
    text,             \* the characters of a solution file handed to the parser
    parse_out,        \* what the parser returned for text, None before the call
    calls,            \* the launch profile detections so far: file met, answer
    alive             \* `dotnet run` children started and still running

vars == <<draft, discovered, pc, result, exit, sln_files, selected_sln,
          projects, list_state, showing_projects, logs, appended, raw_mode,
          alt_screen, event, procs, text, parse_out, calls, alive>>

\* what the session's own steps never touch
fixed == <<text, parse_out, calls>>
env == <<draft, discovered, fixed>>
app == <<exit, sln_files, selected_sln, projects, list_state, showing_projects>>
term == <<raw_mode, alt_screen>>

\* ------------------------------------------------------------- data values
None == <<>>
Some(x) == <<x>>
IsSome(o) == Len(o) = 1
Unwrap(o) == o[1]

Slns == 1..MaxSlns
\* the k-th reference of solution s; references of different solutions differ
Ref(s, k) == <<s, k>>
RefList(s, n) == [k \in 1..n |-> Ref(s, k)]

\* what read_to_string meets when a solution file is opened: the file is
\* unreadable, or its lines yield n references
FileStates == {[ok |-> FALSE, n |-> 0]} \cup {[ok |-> TRUE, n |-> n] : n \in 0..MaxProjects}

Injective(q) == \A i, j \in DOMAIN q : q[i] = q[j] => i = j
Walks == {q \in UNION {[1..n -> Slns] : n \in 0..MaxSlns} : Injective(q)}

Last(s) == s[Len(s)]

\* ------------------------------------------------------------ pure helpers
find_sln_files == discovered

\* the parser reading the first discovered solution whatever path it is given
parse_sln_for_projects_first(path, file) ==
    IF file.ok THEN [ok |-> TRUE, refs |-> RefList(discovered[1], file.n)]
    ELSE [ok |-> FALSE, refs |-> <<>>]

\* util.rs parse_sln_for_projects on a file met in state `file`: the
\* references of that solution, or the read error
parse_sln_for_projects(path, file) ==
    IF file.ok THEN [ok |-> TRUE, refs |-> RefList(path, file.n)]
    ELSE [ok |-> FALSE, refs |-> <<>>]

saturating_add_signed(current, delta) ==
    IF current + delta < 0 THEN 0 ELSE current + delta

saturating_sub(a, b) == IF a - b < 0 THEN 0 ELSE a - b

Min(a, b) == IF a < b THEN a ELSE b

\* add_log dropping the oldest line one push early
add_log_early(l, message) ==
    LET pushed == Append(l, message)
    IN IF Len(pushed) >= LogCeiling THEN Tail(pushed) ELSE pushed

\* push, then remove(0) once more than the ceiling is held
add_log(l, message) ==
    LET pushed == Append(l, message)
    IN IF Len(pushed) > LogCeiling THEN Tail(pushed) ELSE pushed

\* a call self.add_log(message)
Log(message) ==
    /\ logs' = add_log(logs, message)
    /\ appended' = Append(appended, message)

\* the list the loop draws: projects or solutions
current_list == IF showing_projects THEN projects ELSE sln_files

\* ------------------------------------------------------------------- init
Init ==
    /\ draft \in {"app", "main"}
    /\ discovered \in Walks
    /\ pc = "start"
    /\ result = "none"
    /\ exit = FALSE
    /\ sln_files = <<>>
    /\ selected_sln = 0
    /\ projects = <<>>
    /\ list_state = None
    /\ showing_projects = FALSE
    /\ logs = <<>>
    /\ appended = <<>>
    /\ raw_mode = FALSE
    /\ alt_screen = FALSE
    /\ event = "none"
    /\ procs = <<>>
    /\ text = <<>>
    /\ parse_out = None
    /\ calls = <<>>
    /\ alive = 0

\* ---------------------------------------------------------------- startup
\* the selection without with_selected
new_list_state_default == None

\* ListState::default().with_selected(Some(0)) of App::new
new_list_state == Some(0)

\* App::new, called by main: a failure ends the program before run()
App_new ==
    /\ pc = "start"
    /\ UNCHANGED <<env, alive, term, event, procs, logs, appended, exit, showing_projects>>
    /\ IF find_sln_files = <<>>
       THEN /\ pc' = "exited"
            /\ result' = "NotFound"
            /\ UNCHANGED <<sln_files, selected_sln, projects, list_state>>
       ELSE \E file \in FileStates :
            LET first == find_sln_files[1]
                parsed == parse_sln_for_projects(first, file)
            IN IF ~parsed.ok
               THEN /\ pc' = "exited"
                    /\ result' = "IoError"
                    /\ UNCHANGED <<sln_files, selected_sln, projects, list_state>>
               ELSE /\ pc' = "created"
                    /\ result' = "none"
                    /\ sln_files' = find_sln_files
                    /\ selected_sln' = first
                    /\ projects' = parsed.refs
                    /\ list_state' = new_list_state

\* run(), before its loop: raw mode, alternate screen, Terminal::new
run_setup ==
    /\ pc = "created"
    /\ UNCHANGED <<env, alive, app, logs, appended, event, procs>>
    /\ \E failed \in {"none", "enable_raw_mode", "EnterAlternateScreen", "Terminal_new"} :
        /\ raw_mode' = (failed # "enable_raw_mode")
        /\ alt_screen' = (failed \notin {"enable_raw_mode", "EnterAlternateScreen"})
        /\ IF failed = "none"
           THEN pc' = "loop" /\ result' = "none"
           ELSE pc' = "exited" /\ result' = "IoError"

\* ------------------------------------------------------------ loop pieces
\* terminal.draw renders the current list through &mut self.list_state: the
\* list widget drops the selection of an empty list and pulls an index past
\* the end back to the last item, unless the list area is empty and it
\* returns before touching the state
render_stateful_widget(selected, len) ==
    {selected} \cup
    (IF len = 0 THEN {None}
     ELSE IF IsSome(selected) /\ Unwrap(selected) >= len THEN {Some(len - 1)}
     ELSE {selected})

draw == render_stateful_widget(list_state, Len(current_list))

\* an error swallowed where it arises, the loop going on
Propagate_absorbed(err) ==
    /\ pc' = "loop"
    /\ result' = "none"

\* an error leaves run() through `?`: nothing after the loop is executed
Propagate(err) ==
    /\ pc' = "exited"
    /\ result' = err

\* move_selection without the .min(..) clamp
move_selection_unclamped(selected, delta) ==
    IF IsSome(selected)
    THEN Some(saturating_add_signed(Unwrap(selected), delta))
    ELSE selected

\* move_selection wrapping around at both ends
move_selection_wrap(selected, delta) ==
    IF IsSome(selected)
    THEN LET max_len == IF showing_projects THEN Len(projects) ELSE Len(sln_files)
         IN IF max_len = 0 THEN selected
            ELSE Some((Unwrap(selected) + delta) % max_len)
    ELSE selected

\* app.rs move_selection, on the selection the draw left
move_selection(selected, delta) ==
    IF IsSome(selected)
    THEN LET max_len == IF showing_projects THEN Len(projects) ELSE Len(sln_files)
         IN Some(Min(saturating_add_signed(Unwrap(selected), delta),
                     saturating_sub(max_len, 1)))
    ELSE selected

\* main.rs move_selection: len() - 1 without the saturation
main_move_selection(selected, delta) ==
    IF IsSome(selected)
    THEN Some(Min(saturating_add_signed(Unwrap(selected), delta), Len(sln_files) - 1))
    ELSE selected

unwrap_or(o, d) == IF IsSome(o) THEN Unwrap(o) ELSE d

\* ------------------------------------------------------------ key handlers
\* KeyCode::Up => move_selection(-1), KeyCode::Down => move_selection(1)
key_move ==
    /\ pc = "loop"
    /\ \E delta \in {-1, 1}, drawn \in draw :
        /\ event' = (IF delta = -1 THEN "Up" ELSE "Down")
        /\ IF draft = "main" /\ IsSome(drawn) /\ Len(sln_files) = 0
           THEN \* usize underflow of len() - 1: a panic with overflow checks
                /\ Propagate("Panic")
                /\ list_state' = drawn
           ELSE /\ list_state' = (IF draft = "app" THEN move_selection(drawn, delta)
                                  ELSE main_move_selection(drawn, delta))
                /\ UNCHANGED <<pc, result>>
    /\ UNCHANGED <<env, alive, term, logs, appended, procs, exit, sln_files, selected_sln, projects,
                   showing_projects>>

\* on_enter_key without its mode test
enter_runs_project_always == TRUE

\* on_enter_key: Enter runs the selected project once projects are shown
enter_runs_project == showing_projects

\* select_solution keeping the selection it was called with
select_list_state_kept == list_state

\* the state select_solution leaves: mode and selection
select_showing_projects == TRUE
select_list_state == Some(0)

\* app.rs select_solution (Enter while the solution list is shown), then the
\* "Selected item at index" log line of run()
select_solution ==
    /\ pc = "loop"
    /\ draft = "app"
    /\ ~enter_runs_project
    /\ Len(logs) < MaxEnters
    /\ event' = "Enter"
    /\ UNCHANGED <<env, alive, term, procs, exit, sln_files>>
    /\ \E drawn \in draw :
        IF ~IsSome(drawn)
        THEN /\ list_state' = drawn
             /\ Log(unwrap_or(drawn, 0))
             /\ UNCHANGED <<pc, result, selected_sln, projects, showing_projects>>
        ELSE IF Unwrap(drawn) >= Len(sln_files)
        THEN \* self.sln_files[selected] out of bounds
             /\ Propagate("Panic")
             /\ list_state' = drawn
             /\ UNCHANGED <<logs, appended, selected_sln, projects, showing_projects>>
        ELSE \E file \in FileStates :
             LET chosen == sln_files[Unwrap(drawn) + 1]
                 parsed == parse_sln_for_projects(chosen, file)
             IN /\ selected_sln' = chosen
                /\ IF parsed.ok
                   THEN /\ projects' = parsed.refs
                        /\ showing_projects' = select_showing_projects
                        /\ list_state' = select_list_state
                        /\ Log(0)
                        /\ UNCHANGED <<pc, result>>
                   ELSE /\ Propagate("IoError")
                        /\ list_state' = drawn
                        /\ UNCHANGED <<logs, appended, projects, showing_projects>>

\* main.rs select_solution: no mode, no index reset, no log
main_select_solution ==
    /\ pc = "loop"
    /\ draft = "main"
    /\ event' = "Enter"
    /\ UNCHANGED <<env, alive, term, procs, exit, sln_files, logs, appended, showing_projects>>
    /\ \E drawn \in draw :
        /\ list_state' = drawn
        /\ IF ~IsSome(drawn)
           THEN UNCHANGED <<pc, result, selected_sln, projects>>
           ELSE IF Unwrap(drawn) >= Len(sln_files)
           THEN Propagate("Panic") /\ UNCHANGED <<selected_sln, projects>>
           ELSE \E file \in FileStates :
                LET chosen == sln_files[Unwrap(drawn) + 1]
                    parsed == parse_sln_for_projects(chosen, file)
                IN /\ selected_sln' = chosen
                   /\ IF parsed.ok
                      THEN projects' = parsed.refs /\ UNCHANGED <<pc, result>>
                      ELSE Propagate("IoError") /\ UNCHANGED projects

\* ------------------------------------------------------------ orchestrator
\* Properties/launchSettings.json as the detector meets it: unreadable, not
\* JSON, JSON without "profiles", "profiles" that is no object, or an object
\* whose keys the JSON parser iterates in the order of `keys`
ProfileNames == {"http", "https"}
LaunchFiles ==
    {[kind |-> k, keys |-> <<>>] :
        k \in {"unreadable", "invalid_json", "no_profiles", "not_object"}}
    \cup {[kind |-> "object", keys |-> ks] :
            ks \in {q \in UNION {[1..n -> ProfileNames] : n \in 0..2} : Injective(q)}}

\* the detector returning the last profile name instead of the first
detect_launch_profile_last(file) ==
    IF file.kind = "object" /\ file.keys # <<>> THEN Some(Last(file.keys)) ELSE None

detect_launch_profile(file) ==
    IF file.kind = "object" /\ file.keys # <<>> THEN Some(file.keys[1]) ELSE None

\* the orchestrator taking the first project whatever is selected
selected_project_first(selected) == projects[1]

\* &self.projects[selected]
selected_project(selected) == projects[selected + 1]

\* the build status left unchecked
status_success_any(code) == TRUE

\* output.status.success(): the build exited with code 0
ExitCodes == {0, 1}
status_success(code) == code = 0
ExitStatus(code) == IF code = 0 THEN "exit_zero" ELSE "exit_nonzero"

\* `dotnet run` started without looking at the detected profile
run_profile_arg_none(launch_profile) == None

\* command.arg("--launch-profile").arg(profile) if a profile was detected:
\* the profile argument of `dotnet run`, None for no argument
run_profile_arg(launch_profile) ==
    IF IsSome(launch_profile) THEN Some(Unwrap(launch_profile)) ELSE None

\* one external step of a project confirm
Step(op, project, status, profile) ==
    [op |-> op, project |-> project, status |-> status, profile |-> profile]

\* app.rs run_selected_project up to the blocking wait of the build: Enter
\* while the project list is shown.  The two parent() lookups cannot fail
\* for the path of a file the walk found, so their error returns are left out.
run_selected_project ==
    /\ pc = "loop"
    /\ draft = "app"
    /\ enter_runs_project
    /\ Len(logs) < MaxEnters
    /\ event' = "Enter"
    /\ UNCHANGED <<env, alive, term, logs, appended, exit, sln_files, selected_sln, projects,
                   showing_projects>>
    /\ \E drawn \in draw :
        /\ list_state' = drawn
        /\ IF ~IsSome(drawn)
           THEN \* Err(NotFound, "No project selected") leaves run() by `?`
                /\ Propagate("NoProject")
                /\ UNCHANGED procs
           ELSE IF Unwrap(drawn) >= Len(projects)
           THEN \* &self.projects[selected] out of bounds
                /\ Propagate("Panic")
                /\ UNCHANGED procs
           ELSE LET project == selected_project(Unwrap(drawn))
                IN \E spawned \in BOOLEAN :
                    IF spawned
                    THEN /\ procs' = <<Step("build", project, "spawned", None)>>
                         /\ pc' = "building"
                         /\ UNCHANGED result
                    ELSE \* Command::output()? fails to start dotnet
                         /\ procs' = <<Step("build", project, "spawn_failed", None)>>
                         /\ Propagate("IoError")

\* the orchestrator waiting for the run child like it does for the build
after_run_spawn_wait == "running"

\* .spawn()? returns once the child is started; Ok(()) puts run() back in
\* its loop
after_run_spawn == "loop"

\* the build process exits and run_selected_project goes on: build status,
\* profile detection, the detached `dotnet run`, then the log line of run()
build_exit ==
    /\ pc = "building"
    /\ UNCHANGED <<env, term, app, event>>
    /\ LET project == Last(procs).project
       IN \E code \in ExitCodes :
           IF ~status_success(code)
           THEN /\ procs' = Append(procs, Step("build_exit", project, ExitStatus(code), None))
                /\ Propagate("BuildFailed")
                /\ UNCHANGED <<logs, appended, alive>>
           ELSE \E file \in LaunchFiles, spawned \in BOOLEAN :
                LET launch_profile == detect_launch_profile(file)
                IN /\ procs' = procs \o
                        << Step("build_exit", project, ExitStatus(code), None),
                           Step("detect", project, "done", launch_profile),
                           Step("run", project,
                                IF spawned THEN "spawned" ELSE "spawn_failed",
                                run_profile_arg(launch_profile)) >>
                   /\ IF spawned
                      THEN /\ pc' = after_run_spawn
                           /\ alive' = alive + 1
                           /\ Log(unwrap_or(list_state, 0))
                           /\ UNCHANGED result
                      ELSE /\ Propagate("IoError")
                           /\ UNCHANGED <<logs, appended, alive>>

\* a `dotnet run` child ends on its own; its handle was dropped at the spawn,
\* so nothing in the session waits for it or reads its status
run_child_exit ==
    /\ alive > 0
    /\ alive' = alive - 1
    /\ UNCHANGED <<env, app, term, pc, result, event, procs, logs, appended>>

\* ------------------------------------------------------- the rest of run()
\* Esc or q: exit = true ends the while loop; then raw mode is disabled and
\* the alternate screen left, each of which can fail; main prints its summary
\* the quit arm leaving the flag alone
quit_exit_unset == exit

\* KeyCode::Esc | KeyCode::Char('q') => self.exit = true
quit_exit == TRUE
key_quit ==
    /\ pc = "loop"
    /\ UNCHANGED <<env, alive, logs, appended, procs, sln_files, selected_sln, projects, showing_projects>>
    /\ event' = "Quit"
    /\ exit' = quit_exit
    /\ \E drawn \in draw, failed \in {"none", "disable_raw_mode", "LeaveAlternateScreen"} :
        /\ list_state' = drawn
        /\ IF exit'
           THEN /\ pc' = "exited"
                /\ raw_mode' = (failed = "disable_raw_mode")
                /\ alt_screen' = (failed # "none")
                /\ result' = (IF failed = "none" THEN "Ok" ELSE "IoError")
           ELSE UNCHANGED <<pc, result, term>>

\* the `_ => {}` arm with a key that jumps to the first item
ignored_event_home ==
    /\ pc = "loop"
    /\ UNCHANGED <<env, alive, term, logs, appended, procs, pc, result, exit, sln_files, selected_sln,
                   projects, showing_projects>>
    /\ event' \in {"Timeout", "NotKey", "NotPress", "OtherKey"}
    /\ list_state' = (IF event' = "OtherKey" THEN Some(0) ELSE list_state)

\* the `_ => {}` arm with a key that leads back to the solution list
ignored_event_back ==
    /\ pc = "loop"
    /\ UNCHANGED <<env, alive, term, logs, appended, procs, pc, result, exit, sln_files, selected_sln,
                   projects>>
    /\ event' \in {"Timeout", "NotKey", "NotPress", "OtherKey"}
    /\ showing_projects' = (IF event' = "OtherKey" THEN FALSE ELSE showing_projects)
    /\ list_state' \in draw

\* poll timeout, an event that is no key, a key release or repeat, another key
ignored_event ==
    /\ pc = "loop"
    /\ UNCHANGED <<env, alive, term, logs, appended, procs, pc, result, exit, sln_files, selected_sln,
                   projects, showing_projects>>
    /\ event' \in {"Timeout", "NotKey", "NotPress", "OtherKey"}
    /\ list_state' \in draw

\* terminal.draw, event::poll or event::read returns an error
terminal_error ==
    /\ pc = "loop"
    /\ UNCHANGED <<env, alive, term, logs, appended, procs, exit, sln_files, selected_sln, projects,
                   showing_projects>>
    /\ event' \in {"DrawError", "PollError", "ReadError"}
    /\ list_state' \in (IF event' = "DrawError" THEN {list_state} \cup draw ELSE draw)
    /\ Propagate("IoError")

Next ==
    \/ App_new
    \/ run_setup
    \/ key_move
    \/ select_solution
    \/ main_select_solution
    \/ run_selected_project
    \/ build_exit
    \/ run_child_exit
    \/ key_quit
    \/ ignored_event
    \/ terminal_error

Spec == Init /\ [][Next]_vars

\* ================================================================= claims
Steps == 1..Len(procs)
StartedUp == sln_files # <<>>
InRange(selected, list) == IsSome(selected) /\ Unwrap(selected) \in 0..(Len(list) - 1)

\* C1: after a successful startup and any sequence of Up, Down and Enter,
\* whenever the list of the current mode is non-empty the selected index
\* exists and lies in [0, length - 1].
C1_IndexInRange ==
    (StartedUp /\ current_list # <<>>) => InRange(list_state, current_list)

\* Down was pressed on the last of several projects and the index stayed there
C1_Witness ==
    /\ pc = "loop" /\ showing_projects /\ event = "Down"
    /\ Len(projects) >= 2 /\ list_state = Some(Len(projects) - 1)

\* C2 (as claimed): with an empty current list every move and every confirm
\* is a no-op: the loop goes on, no process is invoked, mode and lists are
\* unchanged and the selection is at most dropped by the draw.
C2_EmptyListNoOp ==
    [][(pc = "loop" /\ current_list = <<>> /\ event' \in {"Up", "Down", "Enter"})
        => /\ pc' = "loop" /\ result' = "none"
           /\ procs' = procs
           /\ UNCHANGED <<showing_projects, sln_files, projects, selected_sln>>
           /\ list_state' \in {list_state, None}]_vars

\* C3 (as claimed): Enter in Solutions mode at index i always selects the i-th
\* solution, replaces the projects by its parse, switches to Projects mode and
\* sets the index to 0.
C3_ConfirmAlwaysSwitches ==
    [][(pc = "loop" /\ draft = "app" /\ ~showing_projects /\ event' = "Enter")
        => /\ IsSome(list_state)
           /\ selected_sln' = sln_files[Unwrap(list_state) + 1]
           /\ \E n \in 0..MaxProjects : projects' = RefList(selected_sln', n)
           /\ showing_projects'
           /\ list_state' = Some(0)]_vars

\* C3 (amended): Enter in Solutions mode at index i sets the active solution
\* to the i-th discovered one; when that file can be read the projects become
\* its parse, the mode Projects and the index 0, whatever i and the new
\* length; when it cannot be read, projects, mode and index stay and the I/O
\* error ends the loop.
C3_ConfirmSolution ==
    [][(pc = "loop" /\ draft = "app" /\ ~showing_projects /\ event' = "Enter")
        => /\ IsSome(list_state)
           /\ selected_sln' = sln_files[Unwrap(list_state) + 1]
           /\ \/ /\ \E n \in 0..MaxProjects : projects' = RefList(selected_sln', n)
                 /\ showing_projects'
                 /\ list_state' = Some(0)
                 /\ pc' = "loop" /\ result' = "none"
              \/ /\ UNCHANGED <<projects, showing_projects, list_state>>
                 /\ pc' = "exited" /\ result' = "IoError"]_vars

\* the second solution was confirmed and it has no projects, fewer than the
\* index it was confirmed at
C3_Witness ==
    /\ pc = "loop" /\ showing_projects /\ event = "Enter" /\ Len(logs) = 1
    /\ Len(sln_files) >= 2 /\ selected_sln = sln_files[2]
    /\ projects = <<>> /\ list_state = Some(0)

\* C4: within a project confirm a run is spawned only after the build of that
\* project exited with status zero; after a build that exited non-zero no run
\* follows in that confirm.
C4_RunOnlyAfterBuildSuccess ==
    /\ \A k \in Steps : procs[k].op = "run" =>
          \E j \in 1..(k - 1) :
              /\ procs[j].op = "build_exit" /\ procs[j].status = "exit_zero"
              /\ procs[j].project = procs[k].project
              /\ \A m \in (j + 1)..(k - 1) : procs[m].op \notin {"build", "build_exit"}
    /\ \A j \in Steps : (procs[j].op = "build_exit" /\ procs[j].status = "exit_nonzero") =>
          \A k \in (j + 1)..Len(procs) : procs[k].op # "run"

\* a second project confirm whose build exited non-zero, after a first that ran
C4_Witness ==
    /\ Len(logs) = 2 /\ pc = "exited" /\ result = "BuildFailed"
    /\ Last(procs).op = "build_exit" /\ Last(procs).status = "exit_nonzero"

\* C5 (as claimed): after a project confirm whose build exited non-zero the
\* loop is still running in Projects mode.
C5_BuildFailureRecoverable ==
    (procs # <<>> /\ Last(procs).op = "build_exit" /\ Last(procs).status = "exit_nonzero")
        => (pc = "loop" /\ result = "none" /\ showing_projects)

\* C6: the mode only moves forward: Projects mode is never left, and the mode
\* changes only on Enter over a solution, which becomes the active solution.
C6_ModeForwardOnly ==
    [][/\ showing_projects => showing_projects'
       /\ showing_projects' # showing_projects =>
            /\ pc = "loop" /\ event' = "Enter" /\ IsSome(list_state)
            /\ selected_sln' = sln_files[Unwrap(list_state) + 1]]_vars

\* still in Projects mode after a project confirm and an ignored key
C6_Witness ==
    /\ pc = "loop" /\ showing_projects /\ event = "OtherKey" /\ Len(logs) >= 2

\* C7: Enter in Projects mode starts the build of the project at the selected
\* index and changes neither mode, index, solution list, active solution nor
\* project list, neither when the build starts nor when it ends; once the run
\* is spawned the loop waits for commands again.
C7_ProjectConfirmFrame ==
    [][/\ (pc = "loop" /\ draft = "app" /\ showing_projects /\ projects # <<>>
              /\ event' = "Enter" /\ alive' = alive)
          => /\ UNCHANGED <<showing_projects, list_state, sln_files, selected_sln, projects>>
             /\ IsSome(list_state)
             /\ Len(procs') = 1
             /\ procs'[1].op = "build"
             /\ procs'[1].project = projects[Unwrap(list_state) + 1]
       /\ pc = "building"
          => /\ UNCHANGED <<showing_projects, list_state, sln_files, selected_sln, projects>>
             /\ (Last(procs').op = "run" /\ Last(procs').status = "spawned") => pc' = "loop"]_vars

\* the second project was confirmed, ran, and was confirmed again
C7_Witness ==
    /\ pc = "building" /\ list_state = Some(1) /\ logs = <<0, 1>>
    /\ Len(procs) = 1 /\ procs[1].op = "build" /\ procs[1].project = projects[2]

\* C8 (as claimed): a quit key ends the loop, no further command is processed
\* and the result is Ok.
C8_QuitEndsOk ==
    [][/\ exit => UNCHANGED <<app, term, pc, result, event, procs, logs>>
       /\ (pc = "loop" /\ event' = "Quit") => (exit' /\ pc' = "exited" /\ result' = "Ok")]_vars

\* C8 (amended): from either mode a quit key sets exit and ends the loop, no
\* further command is processed, and the result is Ok unless disabling raw
\* mode or leaving the alternate screen fails, which returns that I/O error.
C8_QuitEnds ==
    [][/\ exit => UNCHANGED <<app, term, pc, result, event, procs, logs>>
       /\ (pc = "loop" /\ event' = "Quit") =>
            /\ exit' /\ pc' = "exited"
            /\ \/ result' = "Ok" /\ ~raw_mode' /\ ~alt_screen'
               \/ result' = "IoError" /\ alt_screen']_vars

\* quit pressed in Projects mode, ended normally
C8_Witness ==
    exit /\ pc = "exited" /\ showing_projects /\ event = "Quit" /\ result = "Ok"

\* C9: the trace of external processes changes only in a step that is Enter in
\* Projects mode or the end of the build such an Enter started.
C9_SpawnOnlyOnProjectConfirm ==
    [][procs' # procs =>
         /\ draft = "app" /\ showing_projects
         /\ (pc = "loop" /\ event' = "Enter") \/ pc = "building"]_vars

\* a solution was confirmed, then quit: no process was invoked
C9_Witness ==
    /\ pc = "exited" /\ event = "Quit" /\ showing_projects
    /\ Len(logs) = 1 /\ procs = <<>>

\* C10: with no solution file discovered startup ends with NotFound and the
\* loop is never entered (no terminal setup, no event); after a successful
\* startup the solution list is non-empty, the mode Solutions, the index 0.
C10_Startup ==
    /\ (discovered = <<>> /\ pc # "start")
         => (pc = "exited" /\ result = "NotFound" /\ event = "none" /\ ~raw_mode)
    /\ (pc = "created" \/ (pc = "loop" /\ event = "none"))
         => (sln_files # <<>> /\ ~showing_projects /\ list_state = Some(0))

\* startup failed for want of a solution file
C10_Witness ==
    discovered = <<>> /\ pc = "exited" /\ result = "NotFound"

\* ------------------------------------------------------------ C11: add_log
\* A session that has logged up to the ceiling: one solution confirm and then
\* confirms of the first project, the last of which ran.  log_append is one
\* more call of add_log.
LogStart ==
    /\ draft = "app" /\ discovered = <<1>>
    /\ text = <<>> /\ parse_out = None /\ calls = <<>>
    /\ pc = "loop" /\ result = "none" /\ exit = FALSE
    /\ sln_files = <<1>> /\ selected_sln = 1
    /\ projects = RefList(1, MaxProjects)
    /\ list_state = Some(0) /\ showing_projects = TRUE
    /\ raw_mode = TRUE /\ alt_screen = TRUE /\ event = "Enter"
    /\ procs = << Step("build", Ref(1, 1), "spawned", None),
                  Step("build_exit", Ref(1, 1), "exit_zero", None),
                  Step("detect", Ref(1, 1), "done", None),
                  Step("run", Ref(1, 1), "spawned", None) >>
    /\ alive = 1

InitLog ==
    /\ LogStart
    /\ \E n \in (LogCeiling - 2)..LogCeiling : logs = [i \in 1..n |-> 0]
    /\ appended = logs

log_append ==
    /\ Len(appended) < LogCeiling + MaxLogOver
    /\ \E message \in 0..(MaxProjects - 1) : Log(message)
    /\ UNCHANGED <<env, alive, app, term, pc, result, event, procs>>

NextLog == log_append

SpecLog == InitLog /\ [][NextLog]_vars

Suffix(s, n) == SubSeq(s, Len(s) - n + 1, Len(s))

\* C11: the log never holds more than the ceiling; it holds the most recent
\* min(ceiling, appended) messages in append order; an append to a full log
\* drops exactly the oldest message and adds the new one at the end.
C11_LogBounded ==
    /\ [](/\ Len(logs) <= LogCeiling
          /\ logs = Suffix(appended, Min(Len(appended), LogCeiling)))
    /\ [][(Len(logs) = LogCeiling /\ appended' # appended)
            => logs' = Append(Tail(logs), Last(appended'))]_vars

\* several appends past the ceiling, the newest message at the end
C11_Witness ==
    /\ Len(appended) >= LogCeiling + 2 /\ Len(logs) = LogCeiling
    /\ logs[LogCeiling] = 1 /\ logs[LogCeiling - 1] = 0 /\ logs[1] = 0

\* ------------------------------------------- C12: parse_sln_for_projects
\* A text is a sequence of characters; "\n" ends a line.
NL == "\n"
WS == " "
QUOTE == "\""
COMMA == ","
Prefix == <<"P", "r", "o", "j", "e", "c", "t", "(">>

\* str::trim: leading and trailing whitespace removed
RECURSIVE trim_start(_)
trim_start(s) == IF s # <<>> /\ Head(s) = WS THEN trim_start(Tail(s)) ELSE s
RECURSIVE trim_end(_)
trim_end(s) ==
    IF s # <<>> /\ Last(s) = WS THEN trim_end(SubSeq(s, 1, Len(s) - 1)) ELSE s
trim(s) == trim_end(trim_start(s))

\* str::trim_matches(c): every leading and every trailing c removed
RECURSIVE trim_start_matches(_, _)
trim_start_matches(s, c) ==
    IF s # <<>> /\ Head(s) = c THEN trim_start_matches(Tail(s), c) ELSE s
RECURSIVE trim_end_matches(_, _)
trim_end_matches(s, c) ==
    IF s # <<>> /\ Last(s) = c
    THEN trim_end_matches(SubSeq(s, 1, Len(s) - 1), c) ELSE s
trim_matches(s, c) == trim_end_matches(trim_start_matches(s, c), c)

starts_with(s, p) == Len(s) >= Len(p) /\ SubSeq(s, 1, Len(p)) = p

\* str::split(c): the pieces between the c's, at least one piece
RECURSIVE split(_, _)
split(s, c) ==
    IF \A i \in DOMAIN s : s[i] # c THEN <<s>>
    ELSE LET at == CHOOSE i \in DOMAIN s : s[i] = c /\ \A j \in 1..(i - 1) : s[j] # c
         IN <<SubSeq(s, 1, at - 1)>> \o split(SubSeq(s, at + 1, Len(s)), c)

\* Iterator::nth
nth(pieces, n) == IF Len(pieces) > n THEN Some(pieces[n + 1]) ELSE None

\* str::lines: split at "\n", no line for what follows a final "\n"
lines(t) ==
    LET pieces == split(t, NL)
    IN IF Last(pieces) = <<>> THEN SubSeq(pieces, 1, Len(pieces) - 1) ELSE pieces

\* the closure without the trim before starts_with
parse_line_untrimmed(line) ==
    IF starts_with(line, Prefix)
    THEN LET field == nth(split(line, COMMA), 1)
         IN IF IsSome(field) THEN Some(trim_matches(trim(Unwrap(field)), QUOTE))
            ELSE None
    ELSE None

\* the filter_map closure: the reference of one line, if it has one
parse_line(line) ==
    IF starts_with(trim(line), Prefix)
    THEN LET field == nth(split(line, COMMA), 1)
         IN IF IsSome(field) THEN Some(trim_matches(trim(Unwrap(field)), QUOTE))
            ELSE None
    ELSE None

RECURSIVE filter_map(_)
filter_map(ls) ==
    IF ls = <<>> THEN <<>>
    ELSE LET r == parse_line(Head(ls))
         IN (IF IsSome(r) THEN <<Unwrap(r)>> ELSE <<>>) \o filter_map(Tail(ls))

\* parse_sln_for_projects on the text read_to_string returned
parse_text(t) == filter_map(lines(t))

\* the lines tried: with and without leading blank, the prefix at the start
\* or after another character, and after it no comma, a plain second field,
\* a quoted one between blanks with a third field, a half-quoted one, an
\* empty one, one with blanks inside its quotes
LineLeads == {<<>>, <<WS>>}
LineHeads == {Prefix, <<"a">> \o Prefix}
LineTails ==
    { <<>>,
      <<COMMA, "a">>,
      <<COMMA, WS, QUOTE, "a", QUOTE, WS, COMMA, "b">>,
      <<COMMA, QUOTE, "a">>,
      <<COMMA>>,
      <<COMMA, QUOTE, WS, "a", WS, QUOTE>> }
SlnLines == {l \o h \o t : l \in LineLeads, h \in LineHeads, t \in LineTails}

RECURSIVE join(_)
join(ls) ==
    IF ls = <<>> THEN <<>>
    ELSE IF Len(ls) = 1 THEN ls[1]
    ELSE ls[1] \o <<NL>> \o join(Tail(ls))

SlnTexts == {join(ls) : ls \in UNION {[1..n -> SlnLines] : n \in 0..MaxLines}}

InitParse ==
    /\ text \in SlnTexts
    /\ parse_out = None
    /\ calls = <<>>
    /\ draft = "app" /\ discovered = <<1>>
    /\ pc = "start" /\ result = "none" /\ exit = FALSE
    /\ sln_files = <<>> /\ selected_sln = 0 /\ projects = <<>>
    /\ list_state = None /\ showing_projects = FALSE
    /\ logs = <<>> /\ appended = <<>>
    /\ raw_mode = FALSE /\ alt_screen = FALSE /\ event = "none" /\ procs = <<>>
    /\ alive = 0

parse_call ==
    /\ parse_out = None
    /\ parse_out' = Some(parse_text(text))
    /\ UNCHANGED <<draft, discovered, text, calls, app, term, pc, result, logs,
                   appended, event, procs, alive>>

NextParse == parse_call

SpecParse == InitParse /\ [][NextParse]_vars

\* the claim's reading of one line
HasPrefix(l) ==
    \E k \in 0..Len(l) :
        /\ \A i \in 1..k : l[i] = WS
        /\ Len(l) >= k + Len(Prefix)
        /\ SubSeq(l, k + 1, k + Len(Prefix)) = Prefix
Commas(l) == {i \in DOMAIN l : l[i] = COMMA}
MinOf(S) == CHOOSE x \in S : \A y \in S : x <= y
MaxOf(S) == CHOOSE x \in S : \A y \in S : x >= y
SecondField(l) ==
    LET c1 == MinOf(Commas(l))
        later == Commas(l) \ {c1}
        c2 == IF later = {} THEN Len(l) + 1 ELSE MinOf(later)
    IN SubSeq(l, c1 + 1, c2 - 1)
Without(f, c) ==
    LET keep == {i \in DOMAIN f : f[i] # c}
    IN IF keep = {} THEN <<>> ELSE SubSeq(f, MinOf(keep), MaxOf(keep))
Reference(l) == Without(Without(SecondField(l), WS), QUOTE)
Contributes(l) == HasPrefix(l) /\ Commas(l) # {}
ExpectedRefs(t) ==
    LET ls == lines(t)
        M == {i \in DOMAIN ls : Contributes(ls[i])}
        kth(k) == CHOOSE i \in M : Cardinality({j \in M : j < i}) = k - 1
    IN [k \in 1..Cardinality(M) |-> Reference(ls[kth(k)])]

\* C12: the parser's output is, in line order, one reference per line whose
\* trimmed text begins with `Project(` and that has a second comma-delimited
\* field: that field without its surrounding whitespace and then without its
\* wrapping double quotes; other lines contribute nothing.
C12_ParserOutput ==
    IsSome(parse_out) => Unwrap(parse_out) = ExpectedRefs(text)

\* two lines parsed: an indented one with a quoted field between blanks, then
\* one whose quotes hold blanks; a third kind of line would give nothing
C12_Witness ==
    /\ text = <<WS>> \o Prefix \o <<COMMA, WS, QUOTE, "a", QUOTE, WS, COMMA, "b">>
              \o <<NL>> \o Prefix \o <<COMMA, QUOTE, WS, "a", WS, QUOTE>>
    /\ parse_out = Some(<< <<"a">>, <<WS, "a", WS>> >>)

\* ------------------------------------------- C13: detect_launch_profile
\* The detector called again and again on whatever launchSettings.json it
\* meets; each call is recorded with the file and the answer.
InitDetect ==
    /\ calls = <<>>
    /\ text = <<>> /\ parse_out = None
    /\ draft = "app" /\ discovered = <<1>>
    /\ pc = "start" /\ result = "none" /\ exit = FALSE
    /\ sln_files = <<>> /\ selected_sln = 0 /\ projects = <<>>
    /\ list_state = None /\ showing_projects = FALSE
    /\ logs = <<>> /\ appended = <<>>
    /\ raw_mode = FALSE /\ alt_screen = FALSE /\ event = "none" /\ procs = <<>>
    /\ alive = 0

detect_call ==
    /\ Len(calls) < MaxCalls
    /\ \E file \in LaunchFiles :
        calls' = Append(calls, [file |-> file, answer |-> detect_launch_profile(file)])
    /\ UNCHANGED <<draft, discovered, text, parse_out, app, term, pc, result, logs,
                   appended, event, procs, alive>>

NextDetect == detect_call

SpecDetect == InitDetect /\ [][NextDetect]_vars

\* C13: every detection answers with no profile or a profile name, never an
\* error: no profile for an unreadable file, invalid JSON, no "profiles" key,
\* a "profiles" that is no object (or an object without keys); otherwise the
\* first key in the parser's iteration order; equal files get equal answers.
C13_DetectorTotal ==
    /\ \A i \in DOMAIN calls :
        LET file == calls[i].file
            answer == calls[i].answer
        IN /\ answer = None \/ (IsSome(answer) /\ Unwrap(answer) \in ProfileNames)
           /\ file.kind \in {"unreadable", "invalid_json", "no_profiles", "not_object"}
                => answer = None
           /\ (file.kind = "object" /\ file.keys # <<>>) => answer = Some(file.keys[1])
           /\ (file.kind = "object" /\ file.keys = <<>>) => answer = None
    /\ \A i, j \in DOMAIN calls :
        calls[i].file = calls[j].file => calls[i].answer = calls[j].answer

\* the same two-profile file detected twice, between them a file that is not
\* JSON: first key both times, no profile in between
C13_Witness ==
    /\ Len(calls) = 3
    /\ calls[1].file = [kind |-> "object", keys |-> <<"https", "http">>]
    /\ calls[2].file.kind = "invalid_json" /\ calls[2].answer = None
    /\ calls[3].file = calls[1].file
    /\ calls[1].answer = Some("https") /\ calls[3].answer = Some("https")

\* -------------------------------------------------------------- C14..C20
\* C14: Up or Down changes nothing but the selection; on a non-empty current
\* list (solutions in Solutions mode, projects in Projects mode) Up at 0 stays
\* at 0, Down at the last index stays there, otherwise the index moves by
\* exactly one; on an empty list the selection is not moved.
C14_MoveOneStep ==
    [][(pc = "loop" /\ alive' = alive /\ event' \in {"Up", "Down"}) =>
         /\ UNCHANGED <<showing_projects, sln_files, projects, selected_sln, exit,
                        logs, procs, pc, result>>
         /\ IF current_list = <<>>
            THEN list_state' \in {list_state, None}
            ELSE LET i == Unwrap(list_state)
                     last == Len(current_list) - 1
                 IN /\ IsSome(list_state)
                    /\ event' = "Up" =>
                         list_state' = Some(IF i = 0 THEN 0 ELSE i - 1)
                    /\ event' = "Down" =>
                         list_state' = Some(IF i = last THEN last ELSE i + 1)]_vars

\* Down was pressed on the last of several solutions and the index stayed
C14_Witness ==
    /\ pc = "loop" /\ ~showing_projects /\ event = "Down"
    /\ Len(sln_files) >= 2 /\ list_state = Some(Len(sln_files) - 1)

StepOrder == <<"build", "build_exit", "detect", "run">>

\* C15: the steps of one project confirm are, in this order, the build, its
\* exit, the profile detection and the run spawn, each at most once; nothing
\* follows a build that did not start or that exited non-zero; the run has
\* the profile argument exactly when the detection returned a name, and then
\* that name.
C15_OrchestratorOrder ==
    /\ Len(procs) <= Len(StepOrder)
    /\ \A k \in Steps : procs[k].op = StepOrder[k]
    /\ \A k \in Steps : procs[k].project = procs[1].project
    /\ (Len(procs) >= 1 /\ procs[1].status = "spawn_failed") => Len(procs) = 1
    /\ (Len(procs) >= 2 /\ procs[2].status = "exit_nonzero") => Len(procs) = 2
    /\ (Len(procs) >= 3) => (procs[2].status = "exit_zero" /\ Len(procs) = 4)
    /\ (Len(procs) = 4) =>
         /\ IsSome(procs[4].profile) <=> IsSome(procs[3].profile)
         /\ procs[4].profile = procs[3].profile

\* a confirm that built, detected the profile http and ran with it
C15_Witness ==
    /\ pc = "loop" /\ Len(procs) = 4
    /\ procs[3].profile = Some("http") /\ procs[4].profile = Some("http")
    /\ procs[4].status = "spawned"

\* C16: while a build is running no key is read and no field of App but the log
\* changes; a run child comes alive only in the step that ends the confirm
\* with control back in the loop; while a child is alive the loop takes move
\* and quit commands; a child's exit changes nothing in the session.
C16_BuildAwaitedRunDetached ==
    [][/\ (pc = "loop" /\ alive > 0) => (ENABLED key_move /\ ENABLED key_quit)
       /\ pc = "building" => UNCHANGED <<event, app, term>>
       /\ alive' > alive =>
            /\ pc = "building" /\ pc' = "loop" /\ alive' = alive + 1
            /\ Last(procs').op = "run" /\ Last(procs').status = "spawned"
       /\ alive' < alive =>
            UNCHANGED <<env, app, term, pc, result, event, procs, logs, appended>>]_vars

\* the session ended by quit while a run child was still alive
C16_Witness == pc = "exited" /\ result = "Ok" /\ event = "Quit" /\ alive > 0

RunSpawnFailed(p) == p # <<>> /\ Last(p).op = "run" /\ Last(p).status = "spawn_failed"

\* C17: when the run command cannot be started after a successful build, the
\* same step ends the session with an I/O error, without a log line and
\* without a new child, and every later step finds the session ended.
C17_RunSpawnFailurePropagates ==
    [][/\ RunSpawnFailed(procs') => (pc' = "exited" /\ result' = "IoError")
       /\ (pc = "building" /\ RunSpawnFailed(procs')) =>
            /\ procs'[2].status = "exit_zero"
            /\ UNCHANGED <<app, logs, alive>>]_vars

C17_Witness ==
    /\ RunSpawnFailed(procs) /\ procs[2].status = "exit_zero"
    /\ pc = "exited" /\ result = "IoError"

IgnoredEvents == {"Timeout", "NotKey", "NotPress", "OtherKey"}

\* C18: a loop iteration whose poll times out, or reads an event that is no
\* key, a key event that is no press, or a press of a key other than Up,
\* Down, Enter, Esc and q, leaves the mode, both lists, the active solution,
\* the log and the exit flag as they were, starts no process and keeps the
\* session running; the selected index stays too (over an empty list the
\* frame's rendering may drop it).  A step that changes `alive` at the loop
\* is a child exiting, not an iteration.
C18_IgnoredEventsChangeNothing ==
    [][(pc = "loop" /\ alive' = alive /\ event' \in IgnoredEvents) =>
         /\ UNCHANGED <<showing_projects, sln_files, projects, selected_sln, logs,
                        appended, exit, procs, pc, result, term>>
         /\ IF current_list # <<>>
            THEN list_state' = list_state
            ELSE list_state' \in {list_state, None}]_vars

\* another key was pressed with the second project selected, after a run
C18_Witness ==
    /\ pc = "loop" /\ event = "OtherKey"
    /\ showing_projects /\ list_state = Some(1) /\ alive > 0

\* C19: whenever a step leaves the loop waiting for a command (the loop is
\* entered by a step, so this is every such state) the solution list is the one
\* discovered at startup, the active solution is one of its elements and the
\* projects are a parse of the active solution; the solution list never
\* changes once it is set.  (A confirm whose parse fails has set the active
\* solution but ends the loop.)
C19_ActiveSolutionConsistent ==
    [][/\ pc' = "loop" =>
            /\ sln_files' = discovered'
            /\ \E i \in 1..Len(sln_files') : selected_sln' = sln_files'[i]
            /\ projects' = RefList(selected_sln', Len(projects'))
       /\ sln_files # <<>> => sln_files' = sln_files]_vars

\* the second solution was confirmed and could not be read: it is the active
\* solution next to the first one's projects, and the loop has ended
C19_Witness ==
    /\ pc = "exited" /\ result = "IoError" /\ event = "Enter"
    /\ Len(sln_files) >= 2 /\ selected_sln = sln_files[2]
    /\ projects # <<>> /\ projects = RefList(sln_files[1], Len(projects))

\* C20 (as claimed): whenever run() has returned out of its loop, by quit or
\* by an error, raw mode is disabled and the alternate screen left.
C20_TerminalRestoredOnReturn ==
    (pc = "exited" /\ event # "none") => (~raw_mode /\ ~alt_screen)
====
